---- MODULE Spec2Model ----
(***************************************************************************)
(* Model of the stewart-platform cylinder position servo:                  *)
(*   src/src/controller.rs  CylinderPositionController (P / PI law)        *)
(*   src/src/main.rs        control loop, setpoint mailbox, console thread *)
(*                                                                         *)
(* Numbers.  An f64 is modelled as a record [cls, v]:                      *)
(*   cls = "fin": the finite value v * Unit, Unit = 1 / (U16Max * 100),    *)
(*                so that both the sensor reading raw / 65535 and decimal  *)
(*                console input with two fractional digits are exact;      *)
(*   cls = "nan": NaN;   cls = "inf": +infinity (v = 1), -infinity (v = -1)*)
(* Finite arithmetic is exact: rounding and overflow to infinity of finite *)
(* sums are not modelled.  Gains are whole numbers and are kept unscaled   *)
(* (cls = "fin", v = the gain itself), so gain * value needs no rescaling. *)
(***************************************************************************)
EXTENDS Integers, Sequences, FiniteSets, TLC

(* ---------------------------------------------------------------- bounds *)
\* number of console lines the operator types during a run
MaxLines == 2
\* number of control cycles the loop is followed for
MaxCycles == 2
\* number of calls made on a controller in each phase of the controller harness
MaxCalls == 3
\* number of console lines typed in the mailbox scenario (three writes are
\* needed for two of them to fall between two drains while a drain is under way)
MaxBurst == 3

(* ------------------------------------------------------------- constants *)
\* u16::MAX, the divisor of the sensor reading
U16Max == 65535
\* one whole (1.0) in units: 100 * U16Max
One == 100 * U16Max
\* deadband_half_width = 0.01 in units
deadband_half_width == U16Max

(* ------------------------------------------------------------------- f64 *)
Fin(n) == [cls |-> "fin", v |-> n]
NaN == [cls |-> "nan", v |-> 0]
PosInf == [cls |-> "inf", v |-> 1]
NegInf == [cls |-> "inf", v |-> -1]

IsFin(x) == x.cls = "fin"
IsNaN(x) == x.cls = "nan"
IsInf(x) == x.cls = "inf"

Sgn(n) == IF n > 0 THEN 1 ELSE IF n < 0 THEN -1 ELSE 0

\* a < b on f64: false when either side is NaN
FLt(a, b) ==
    IF IsNaN(a) \/ IsNaN(b) THEN FALSE
    ELSE IF IsInf(a) /\ IsInf(b) THEN a.v < b.v
    ELSE IF IsInf(a) THEN a.v < 0
    ELSE IF IsInf(b) THEN b.v > 0
    ELSE a.v < b.v

\* a > b on f64
FGt(a, b) == FLt(b, a)

\* -a
FNeg(a) == IF IsNaN(a) THEN NaN ELSE [cls |-> a.cls, v |-> 0 - a.v]

\* a + b on f64: NaN is absorbing, inf + -inf = NaN
FAdd(a, b) ==
    IF IsNaN(a) \/ IsNaN(b) THEN NaN
    ELSE IF IsInf(a) /\ IsInf(b) THEN (IF a.v = b.v THEN a ELSE NaN)
    ELSE IF IsInf(a) THEN a
    ELSE IF IsInf(b) THEN b
    ELSE Fin(a.v + b.v)

\* a - b on f64
FSub(a, b) == FAdd(a, FNeg(b))

\* gain * value on f64: NaN is absorbing, 0 * inf = NaN
FMul(g, x) ==
    IF IsNaN(g) \/ IsNaN(x) THEN NaN
    ELSE IF IsInf(g) \/ IsInf(x)
         THEN (IF Sgn(g.v) * Sgn(x.v) = 0 THEN NaN
               ELSE [cls |-> "inf", v |-> Sgn(g.v) * Sgn(x.v)])
    ELSE Fin(g.v * x.v)

\* f64::clamp(self, min, max): a NaN self is returned as it is
FClamp(x, min, max) ==
    IF FLt(x, min) THEN min
    ELSE IF FGt(x, max) THEN max
    ELSE x

(* ------------------------------------------------- console line parsing *)
\* A console line is a sequence of one-character strings.
WhiteSpace == {" ", "\t", "\r", "\n"}
Digits == {"0", "1", "2", "3", "4", "5", "6", "7", "8", "9"}

DigitVal(c) ==
    CASE c = "0" -> 0 [] c = "1" -> 1 [] c = "2" -> 2 [] c = "3" -> 3
      [] c = "4" -> 4 [] c = "5" -> 5 [] c = "6" -> 6 [] c = "7" -> 7
      [] c = "8" -> 8 [] c = "9" -> 9

\* ASCII lower-casing of the letters the special values are spelt with
Lower(c) ==
    CASE c = "N" -> "n" [] c = "A" -> "a" [] c = "I" -> "i" [] c = "F" -> "f"
      [] c = "T" -> "t" [] c = "Y" -> "y" [] OTHER -> c

RECURSIVE TrimStart(_)
TrimStart(s) ==
    IF s # << >> /\ Head(s) \in WhiteSpace THEN TrimStart(Tail(s)) ELSE s

RECURSIVE TrimEnd(_)
TrimEnd(s) ==
    IF s # << >> /\ s[Len(s)] \in WhiteSpace
    THEN TrimEnd(SubSeq(s, 1, Len(s) - 1)) ELSE s

\* str::trim
Trim(s) == TrimEnd(TrimStart(s))

RECURSIVE Pow10(_)
Pow10(n) == IF n = 0 THEN 1 ELSE 10 * Pow10(n - 1)

\* the number a run of decimal digits spells
RECURSIVE DigitsVal(_)
DigitsVal(s) ==
    IF s = << >> THEN 0
    ELSE 10 * DigitsVal(SubSeq(s, 1, Len(s) - 1)) + DigitVal(s[Len(s)])

AllDigits(s) == \A i \in 1..Len(s) : s[i] \in Digits

Ok(x) == [ok |-> TRUE, val |-> x]
Err == [ok |-> FALSE, val |-> NaN]

\* unsigned decimal "ddd", "ddd.dd", ".dd", "ddd.": its value in units
ParseDecimal(s) ==
    LET dots == {i \in 1..Len(s) : s[i] = "."}
    IN  IF Cardinality(dots) > 1 THEN Err
        ELSE LET dot == IF dots = {} THEN Len(s) + 1 ELSE CHOOSE i \in dots : TRUE
                 int == SubSeq(s, 1, dot - 1)
                 frac == SubSeq(s, dot + 1, Len(s))
             IN  IF Len(int) + Len(frac) = 0 \/ ~AllDigits(int) \/ ~AllDigits(frac)
                 THEN Err
                 ELSE Ok(Fin(DigitsVal(int) * One
                             + (DigitsVal(frac) * One) \div Pow10(Len(frac))))

\* <f64 as FromStr>::from_str on the trimmed line: an optional sign, then
\* "inf", "infinity" or "nan" in any case, or a decimal number.  Exponent
\* notation is outside the modelled console input.
ParseF64(s) ==
    LET neg == s # << >> /\ Head(s) = "-"
        body == IF s # << >> /\ Head(s) \in {"+", "-"} THEN Tail(s) ELSE s
        low == [i \in 1..Len(body) |-> Lower(body[i])]
    IN  IF low = <<"n", "a", "n">> THEN Ok(NaN)
        ELSE IF low = <<"i", "n", "f">>
                \/ low = <<"i", "n", "f", "i", "n", "i", "t", "y">>
             THEN Ok(IF neg THEN NegInf ELSE PosInf)
        ELSE LET r == ParseDecimal(body)
             IN  IF r.ok /\ neg THEN Ok(FNeg(r.val)) ELSE r

(* ----------------------------------------------------------- controller *)
\* ControlGains::P(k_p), ControlGains::PI(k_p, k_i)
P(k_p) == [kind |-> "P", k_p |-> Fin(k_p), k_i |-> Fin(0)]
PI(k_p, k_i) == [kind |-> "PI", k_p |-> Fin(k_p), k_i |-> Fin(k_i)]

\* new that takes the proportional gain for the integral gain of P
NewIntegralForP(gains, setpoint) ==
    [k_p |-> gains.k_p,
     k_i |-> IF gains.kind = "P" THEN gains.k_p ELSE gains.k_i,
     setpoint |-> setpoint,
     error_accumulator |-> Fin(0)]

\* CylinderPositionController::new
New(gains, setpoint) ==
    [k_p |-> gains.k_p,
     k_i |-> IF gains.kind = "P" THEN Fin(0) ELSE gains.k_i,
     setpoint |-> setpoint,
     error_accumulator |-> Fin(0)]

\* new_setpoint that keeps the integral memory
NewSetpointKeepsAccumulator(self, setpoint) ==
    [self EXCEPT !.setpoint = FClamp(setpoint, Fin(0), Fin(One))]

\* CylinderPositionController::new_setpoint: the controller afterwards
NewSetpoint(self, setpoint) ==
    [self EXCEPT !.setpoint = FClamp(setpoint, Fin(0), Fin(One)),
                 !.error_accumulator = Fin(0)]

\* control_signal that accumulates only when there is an integral gain
ControlSignalSkipsForP(self, measurement_signal) ==
    LET error == FSub(self.setpoint, measurement_signal)
        acc == IF self.k_i = Fin(0) THEN self.error_accumulator
               ELSE FAdd(self.error_accumulator, error)
    IN  [self |-> [self EXCEPT !.error_accumulator = acc],
         out |-> FAdd(FMul(self.k_p, error), FMul(self.k_i, acc))]

\* control_signal with the error taken as measurement - setpoint
ControlSignalReversed(self, measurement_signal) ==
    LET error == FSub(measurement_signal, self.setpoint)
        acc == FAdd(self.error_accumulator, error)
    IN  [self |-> [self EXCEPT !.error_accumulator = acc],
         out |-> FAdd(FMul(self.k_p, error), FMul(self.k_i, acc))]

\* control_signal that does not keep the accumulated error
ControlSignalForgets(self, measurement_signal) ==
    LET error == FSub(self.setpoint, measurement_signal)
        acc == FAdd(self.error_accumulator, error)
    IN  [self |-> self,
         out |-> FAdd(FMul(self.k_p, error), FMul(self.k_i, acc))]

\* CylinderPositionController::control_signal: the controller afterwards and
\* the value returned
ControlSignal(self, measurement_signal) ==
    LET error == FSub(self.setpoint, measurement_signal)
        acc == FAdd(self.error_accumulator, error)
    IN  [self |-> [self EXCEPT !.error_accumulator = acc],
         out |-> FAdd(FMul(self.k_p, error), FMul(self.k_i, acc))]

(* ------------------------------------------------------------ actuation *)
\* Actuate with the deadband boundary counted as outside the deadband
ActuateInclusive(control_signal) ==
    IF ~FLt(control_signal, Fin(deadband_half_width)) /\ ~IsNaN(control_signal)
    THEN 2
    ELSE IF ~FGt(control_signal, FNeg(Fin(deadband_half_width)))
            /\ ~IsNaN(control_signal)
    THEN 1
    ELSE 0

\* the deadband policy of the control loop: the byte stored in o[0]
Actuate(control_signal) ==
    IF FGt(control_signal, Fin(deadband_half_width)) THEN 2
    ELSE IF FLt(control_signal, FNeg(Fin(deadband_half_width))) THEN 1
    ELSE 0

\* the sensor reading as a measurement: value as f64 / u16::MAX as f64
\* (in units of 1 / One that is value * (One / U16Max), exactly)
Normalise(value) == Fin(value * (One \div U16Max))

(* ---------------------------------------------------------------- state *)
VARIABLES
    \* the program (main.rs)
    mainpc,             \* position of the main task
    ttypc,              \* position of the console thread
    mutex,              \* holder of the Mutex<SetpointUpdate>: "free", "main", "tty"
    setpoint,           \* the shared SetpointUpdate [ready, setpoint]
    controller,         \* the CylinderPositionController of main
    shutdown,           \* the AtomicBool set by SIGINT
    new_setpoint,       \* main's local copy of the drained value
    measurement_signal, \* Option<f64>: [some, val]
    control_signal,     \* this cycle's control signal
    o0,                 \* o[0], first output byte of the EL2042
    slaves,             \* names of the slaves of the group
    state,              \* lifecycle state of the group
    requests,           \* lifecycle states main has asked the link to enter
    exchange,           \* outcome of this cycle's tx_rx: "none", "ok", "err"
    buffer,             \* the console thread's line buffer
    parsed,             \* the console thread's new_setpoint, the number parsed
    typed,              \* lines read from stdin so far
    cycles,             \* cycles completed
    \* history of the run, kept for the properties
    nWrites,            \* writes made to the mailbox; the n-th write has id n
    slotId,             \* id of the write held by the mailbox (0: initial value)
    takenId,            \* id of the write main read into new_setpoint
    appliedCnt,         \* id -> number of new_setpoint calls made with that write
    writesSinceCheck,   \* writes since main last tested the ready flag
    checkedWrites,      \* writesSinceCheck as main last tested the ready flag
    foundReady,         \* what that test found
    nsCalls,            \* new_setpoint calls so far
    csCalls,            \* control_signal calls so far
    \* the controller harness (controller.rs alone)
    hphase,             \* "prior", "lockstep"
    hgains,             \* the gains both controllers were built with
    hA,                 \* the controller under use
    hB,                 \* a freshly constructed controller
    hlog,               \* the calls made on hA since construction
    houtA,              \* what hA's last control_signal call returned
    houtB,              \* what hB's last control_signal call returned
    hcalls              \* calls made so far

progVars == <<mainpc, ttypc, mutex, setpoint, controller, shutdown, new_setpoint,
              measurement_signal, control_signal, o0, slaves, state, requests,
              exchange, buffer, parsed, typed, cycles>>
linkVars == <<requests, exchange>>
histVars == <<nWrites, slotId, takenId, appliedCnt, writesSinceCheck,
              checkedWrites, foundReady, nsCalls, csCalls>>
harnessVars == <<hphase, hgains, hA, hB, hlog, houtA, houtB, hcalls>>
vars == <<progVars, histVars, harnessVars>>

(* ------------------------------------------------------- program inputs *)
\* lines the operator may type
Lines ==
    { <<"0", ".", "1", "9", "\n">>,
      <<" ", "0", ".", "0", "1", "\n">>,
      <<"1", ".", "5", "\n">>,
      <<"N", "a", "N", "\n">>,
      <<"a", "b", "c", "\n">> }

\* raw 16-bit readings of the EL3062 (0.0 and 0.2 once normalised)
Raws == {0, 13107}

\* the slaves init_single_group may discover
SlaveConfigs ==
    { {"EK1100", "EL3062"}, {"EK1100", "EL2042"},
      {"EK1100", "EL3062", "EL2042"} }

None == [some |-> FALSE, val |-> Fin(0)]
Some(x) == [some |-> TRUE, val |-> x]

initial_setpoint == Fin(One)

\* the value of `controller` before main constructs it
NoController == New(P(0), Fin(0))

\* the process is running: main neither returned nor panicked
Alive == mainpc \notin {"exited_err", "exited_ok", "panicked"}

\* main has constructed its controller (its k_p is 1.0, never 0)
Constructed == controller # NoController

\* the program before main runs; `ids` are the ids the writes will get
ProgInit(ids) ==
    /\ mainpc = "args"
    /\ ttypc = "unspawned"
    /\ mutex = "free"
    /\ setpoint = [ready |-> FALSE, setpoint |-> Fin(0)]
    /\ controller = NoController
    /\ shutdown = FALSE
    /\ new_setpoint = Fin(0)
    /\ measurement_signal = None
    /\ control_signal = Fin(0)
    /\ o0 = 0
    /\ slaves = {}
    /\ state = "INIT"
    /\ requests = << >>
    /\ exchange = "none"
    /\ buffer = << >>
    /\ parsed = Fin(0)
    /\ typed = 0
    /\ cycles = 0
    /\ nWrites = 0
    /\ slotId = 0
    /\ takenId = 0
    /\ appliedCnt = [i \in ids |-> 0]
    /\ writesSinceCheck = 0
    /\ checkedWrites = 0
    /\ foundReady = FALSE
    /\ nsCalls = 0
    /\ csCalls = 0

\* the controller harness, unused
HarnessOff ==
    /\ hphase = "off"
    /\ hgains = P(0)
    /\ hA = NoController
    /\ hB = NoController
    /\ hlog = << >>
    /\ houtA = Fin(0)
    /\ houtB = Fin(0)
    /\ hcalls = 0

Init == ProgInit(1..MaxLines) /\ HarnessOff

(* ------------------------------------------------------ main: startup *)
\* main.rs 71-77: the interface argument; without it main returns Err
ReadArgs ==
    /\ mainpc = "args"
    /\ \E present \in BOOLEAN :
          mainpc' = IF present THEN "init_group" ELSE "exited_err"
    /\ UNCHANGED <<ttypc, mutex, setpoint, controller, shutdown, new_setpoint,
                   measurement_signal, control_signal, o0, slaves, state, linkVars,
                   buffer, parsed, typed, cycles, histVars, harnessVars>>

\* main.rs 99-102: init_single_group(..).await.expect("Init")
InitGroup ==
    /\ mainpc = "init_group"
    /\ \/ \E found \in SlaveConfigs :
             /\ slaves' = found
             /\ state' = "PRE-OP"
             /\ mainpc' = "configure"
       \/ /\ mainpc' = "panicked"
          /\ UNCHANGED <<slaves, state>>
    /\ requests' = Append(requests, "PRE-OP")
    /\ UNCHANGED <<ttypc, mutex, setpoint, controller, shutdown, new_setpoint,
                   measurement_signal, control_signal, o0, exchange, buffer, parsed,
                   typed, cycles, histVars, harnessVars>>

\* main.rs 106-115: the SDO writes to an EL3062; a failed write returns Err
Configure ==
    /\ mainpc = "configure"
    /\ \/ mainpc' = "into_op"
       \/ /\ "EL3062" \in slaves
          /\ mainpc' = "exited_err"
    /\ UNCHANGED <<ttypc, mutex, setpoint, controller, shutdown, new_setpoint,
                   measurement_signal, control_signal, o0, slaves, state, linkVars,
                   buffer, parsed, typed, cycles, histVars, harnessVars>>

\* IntoOp that carries on when the link does not reach OP
IntoOpIgnoresFailure ==
    /\ mainpc = "into_op"
    /\ \/ state' = "OP"
       \/ UNCHANGED state
    /\ mainpc' = "register"
    /\ requests' = Append(requests, "OP")
    /\ UNCHANGED <<ttypc, mutex, setpoint, controller, shutdown, new_setpoint,
                   measurement_signal, control_signal, o0, slaves, exchange,
                   buffer, parsed, typed, cycles, histVars, harnessVars>>

\* main.rs 117: group.into_op(&client).await.expect("PRE-OP -> OP")
IntoOp ==
    /\ mainpc = "into_op"
    /\ \/ /\ state' = "OP"
          /\ mainpc' = "register"
       \/ /\ mainpc' = "panicked"
          /\ UNCHANGED state
    /\ requests' = Append(requests, "OP")
    /\ UNCHANGED <<ttypc, mutex, setpoint, controller, shutdown, new_setpoint,
                   measurement_signal, control_signal, o0, slaves, exchange,
                   buffer, parsed, typed, cycles, histVars, harnessVars>>

\* main.rs 134-136: the shutdown flag and its SIGINT hook
Register ==
    /\ mainpc = "register"
    /\ shutdown' = FALSE
    /\ mainpc' = "spawn_tty"
    /\ UNCHANGED <<ttypc, mutex, setpoint, controller, new_setpoint,
                   measurement_signal, control_signal, o0, slaves, state, linkVars,
                   buffer, parsed, typed, cycles, histVars, harnessVars>>

\* main.rs 138-144: the mailbox, not ready, and the console thread
SpawnTty ==
    /\ mainpc = "spawn_tty"
    /\ setpoint' = [ready |-> FALSE, setpoint |-> initial_setpoint]
    /\ ttypc' = "read_line"
    /\ mainpc' = "new_controller"
    /\ UNCHANGED <<mutex, controller, shutdown, new_setpoint,
                   measurement_signal, control_signal, o0, slaves, state, linkVars,
                   buffer, parsed, typed, cycles, histVars, harnessVars>>

\* main.rs 145-148: CylinderPositionController::new(P(1.0), initial_setpoint)
NewController ==
    /\ mainpc = "new_controller"
    /\ controller' = New(P(1), initial_setpoint)
    /\ mainpc' = "poll"
    /\ UNCHANGED <<ttypc, mutex, setpoint, shutdown, new_setpoint,
                   measurement_signal, control_signal, o0, slaves, state, linkVars,
                   buffer, parsed, typed, cycles, histVars, harnessVars>>

\* SIGINT, delivered at any time once the hook is registered
Sigint ==
    /\ Alive
    /\ mainpc \notin {"args", "init_group", "configure", "into_op", "register"}
    /\ ~shutdown
    /\ shutdown' = TRUE
    /\ UNCHANGED <<mainpc, ttypc, mutex, setpoint, controller, new_setpoint,
                   measurement_signal, control_signal, o0, slaves, state, linkVars,
                   buffer, parsed, typed, cycles, histVars, harnessVars>>

(* --------------------------------------------------- main: control loop *)
\* Poll that starts another cycle although the flag is set
PollIgnoresShutdown ==
    /\ mainpc = "poll"
    /\ cycles < MaxCycles
    /\ mainpc' = "tx_rx"
    /\ UNCHANGED <<ttypc, mutex, setpoint, controller, shutdown, new_setpoint,
                   measurement_signal, control_signal, o0, slaves, state, linkVars,
                   buffer, parsed, typed, cycles, histVars, harnessVars>>

\* main.rs 151-154: the shutdown poll at the top of the loop
Poll ==
    /\ mainpc = "poll"
    /\ IF shutdown THEN mainpc' = "into_safe_op"
       ELSE /\ cycles < MaxCycles
            /\ mainpc' = "tx_rx"
    /\ UNCHANGED <<ttypc, mutex, setpoint, controller, shutdown, new_setpoint,
                   measurement_signal, control_signal, o0, slaves, state, linkVars,
                   buffer, parsed, typed, cycles, histVars, harnessVars>>

\* TxRx that goes on with the cycle after a failed exchange
TxRxIgnoresFailure ==
    /\ mainpc = "tx_rx"
    /\ exchange' \in {"ok", "err"}
    /\ mainpc' = "lock_ready"
    /\ UNCHANGED <<ttypc, mutex, setpoint, controller, shutdown, new_setpoint,
                   measurement_signal, control_signal, o0, slaves, state, requests,
                   buffer, parsed, typed, cycles, histVars, harnessVars>>

\* TxRx followed by the measurement, the drain left out
TxRxSkipsDrain ==
    /\ mainpc = "tx_rx"
    /\ \/ mainpc' = "measure" /\ exchange' = "ok"
       \/ mainpc' = "panicked" /\ exchange' = "err"
    /\ UNCHANGED <<ttypc, mutex, setpoint, controller, shutdown, new_setpoint,
                   measurement_signal, control_signal, o0, slaves, state, requests,
                   buffer, parsed, typed, cycles, histVars, harnessVars>>

\* main.rs 155: group.tx_rx(&client).await.expect("TX/RX")
TxRx ==
    /\ mainpc = "tx_rx"
    /\ \/ mainpc' = "lock_ready" /\ exchange' = "ok"
       \/ mainpc' = "panicked" /\ exchange' = "err"
    /\ UNCHANGED <<ttypc, mutex, setpoint, controller, shutdown, new_setpoint,
                   measurement_signal, control_signal, o0, slaves, state, requests,
                   buffer, parsed, typed, cycles, histVars, harnessVars>>

\* main.rs 157, 158, 160: setpoint.lock().unwrap() of each of the three
\* statements of the drain; the guard is a temporary of that statement
MainLock ==
    /\ mainpc \in {"lock_ready", "lock_value", "lock_clear"}
    /\ mutex = "free"
    /\ mutex' = "main"
    /\ mainpc' = CASE mainpc = "lock_ready" -> "check_ready"
                   [] mainpc = "lock_value" -> "read_value"
                   [] mainpc = "lock_clear" -> "clear_ready"
    /\ UNCHANGED <<ttypc, setpoint, controller, shutdown, new_setpoint,
                   measurement_signal, control_signal, o0, slaves, state, linkVars,
                   buffer, parsed, typed, cycles, histVars, harnessVars>>

\* CheckReady whose guard lives on into the body of the if
CheckReadyHoldsGuard ==
    /\ mainpc = "check_ready"
    /\ mutex = "main"
    /\ mutex' = IF setpoint.ready THEN "main" ELSE "free"
    /\ mainpc' = IF setpoint.ready THEN "lock_value" ELSE "measure"
    /\ foundReady' = setpoint.ready
    /\ checkedWrites' = writesSinceCheck
    /\ writesSinceCheck' = 0
    /\ UNCHANGED <<ttypc, setpoint, controller, shutdown, new_setpoint,
                   measurement_signal, control_signal, o0, slaves, state, linkVars,
                   buffer, parsed, typed, cycles, nWrites, slotId, takenId, appliedCnt,
                   nsCalls, csCalls, harnessVars>>

\* main.rs 157: if setpoint.lock().unwrap().ready { .. }; the guard is dropped
\* at the end of the condition
CheckReady ==
    /\ mainpc = "check_ready"
    /\ mutex = "main"
    /\ mutex' = "free"
    /\ mainpc' = IF setpoint.ready THEN "lock_value" ELSE "measure"
    /\ foundReady' = setpoint.ready
    /\ checkedWrites' = writesSinceCheck
    /\ writesSinceCheck' = 0
    /\ UNCHANGED <<ttypc, setpoint, controller, shutdown, new_setpoint,
                   measurement_signal, control_signal, o0, slaves, state, linkVars,
                   buffer, parsed, typed, cycles, nWrites, slotId, takenId, appliedCnt,
                   nsCalls, csCalls, harnessVars>>

\* main.rs 158: let new_setpoint = setpoint.lock().unwrap().setpoint;
ReadValue ==
    /\ mainpc = "read_value"
    /\ mutex = "main"
    /\ mutex' = "free"
    /\ new_setpoint' = setpoint.setpoint
    /\ takenId' = slotId
    /\ mainpc' = "apply"
    /\ UNCHANGED <<ttypc, setpoint, controller, shutdown, measurement_signal,
                   control_signal, o0, slaves, state, linkVars, buffer, parsed, typed, cycles,
                   nWrites, slotId, appliedCnt, writesSinceCheck, checkedWrites,
                   foundReady, nsCalls, csCalls, harnessVars>>

\* main.rs 159: controller.new_setpoint(new_setpoint);
Apply ==
    /\ mainpc = "apply"
    /\ controller' = NewSetpoint(controller, new_setpoint)
    /\ nsCalls' = nsCalls + 1
    /\ appliedCnt' = IF takenId \in DOMAIN appliedCnt
                     THEN [appliedCnt EXCEPT ![takenId] = @ + 1]
                     ELSE appliedCnt
    /\ mainpc' = "lock_clear"
    /\ UNCHANGED <<ttypc, mutex, setpoint, shutdown, new_setpoint,
                   measurement_signal, control_signal, o0, slaves, state, linkVars,
                   buffer, parsed, typed, cycles, nWrites, slotId, takenId,
                   writesSinceCheck, checkedWrites, foundReady, csCalls, harnessVars>>

\* ClearReady that releases the lock and leaves the block without clearing
\* the flag
ClearReadyKeepsFlag ==
    /\ mainpc = "clear_ready"
    /\ mutex = "main"
    /\ mutex' = "free"
    /\ new_setpoint' = Fin(0)
    /\ takenId' = 0
    /\ mainpc' = "measure"
    /\ UNCHANGED <<ttypc, setpoint, controller, shutdown, measurement_signal,
                   control_signal, o0, slaves, state, linkVars, buffer, parsed, typed, cycles,
                   nWrites, slotId, appliedCnt, writesSinceCheck, checkedWrites,
                   foundReady, nsCalls, csCalls, harnessVars>>

\* main.rs 160-161: setpoint.lock().unwrap().ready = false; and the end of the
\* block, where the local new_setpoint goes out of scope
ClearReady ==
    /\ mainpc = "clear_ready"
    /\ mutex = "main"
    /\ mutex' = "free"
    /\ setpoint' = [setpoint EXCEPT !.ready = FALSE]
    /\ new_setpoint' = Fin(0)
    /\ takenId' = 0
    /\ mainpc' = "measure"
    /\ UNCHANGED <<ttypc, controller, shutdown, measurement_signal,
                   control_signal, o0, slaves, state, linkVars, buffer, parsed, typed, cycles,
                   nWrites, slotId, appliedCnt, writesSinceCheck, checkedWrites,
                   foundReady, nsCalls, csCalls, harnessVars>>

\* main.rs 163-169: the EL3062's reading, if the slave is there and its first
\* four input bytes unpack (the PDO assignment of main.rs 108-113 gives the
\* slave eight input bytes, so the slice i[..4] exists); whether
\* unpack_from_slice succeeds is the wire library's answer
Measure ==
    /\ mainpc = "measure"
    /\ IF "EL3062" \in slaves
       THEN \/ \E value \in Raws : measurement_signal' = Some(Normalise(value))
            \/ measurement_signal' = None
       ELSE measurement_signal' = None
    /\ mainpc' = "control"
    /\ UNCHANGED <<ttypc, mutex, setpoint, controller, shutdown, new_setpoint,
                   control_signal, o0, slaves, state, linkVars, buffer, parsed, typed, cycles,
                   nWrites, slotId, takenId, appliedCnt, writesSinceCheck,
                   checkedWrites, foundReady, nsCalls, csCalls,
                   harnessVars>>

\* Control that feeds the controller a zero measurement when there is none
ControlDefaultsSample ==
    /\ mainpc = "control"
    /\ LET r == ControlSignal(controller,
                              IF measurement_signal.some
                              THEN measurement_signal.val ELSE Fin(0))
       IN  /\ controller' = r.self
           /\ control_signal' = r.out
           /\ csCalls' = csCalls + 1
    /\ mainpc' = "actuate"
    /\ UNCHANGED <<ttypc, mutex, setpoint, shutdown, new_setpoint,
                   measurement_signal, o0, slaves, state, linkVars, buffer, parsed, typed, cycles,
                   nWrites, slotId, takenId, appliedCnt, writesSinceCheck,
                   checkedWrites, foundReady, nsCalls, harnessVars>>

\* main.rs 171-175: the control signal, 0.0 without a measurement
Control ==
    /\ mainpc = "control"
    /\ IF measurement_signal.some
       THEN LET r == ControlSignal(controller, measurement_signal.val)
            IN  /\ controller' = r.self
                /\ control_signal' = r.out
                /\ csCalls' = csCalls + 1
       ELSE /\ control_signal' = Fin(0)
            /\ UNCHANGED <<controller, csCalls>>
    /\ mainpc' = "actuate"
    /\ UNCHANGED <<ttypc, mutex, setpoint, shutdown, new_setpoint,
                   measurement_signal, o0, slaves, state, linkVars, buffer, parsed, typed, cycles,
                   nWrites, slotId, takenId, appliedCnt, writesSinceCheck,
                   checkedWrites, foundReady, nsCalls,
                   harnessVars>>

\* main.rs 176-186: the command byte of the EL2042, if the slave is there
ActuateStep ==
    /\ mainpc = "actuate"
    /\ o0' = IF "EL2042" \in slaves THEN Actuate(control_signal) ELSE o0
    /\ mainpc' = "tick"
    /\ UNCHANGED <<ttypc, mutex, setpoint, controller, shutdown, new_setpoint,
                   measurement_signal, control_signal, slaves, state, linkVars, buffer, parsed,
                   typed, cycles, histVars, harnessVars>>

\* main.rs 188-189: tick_interval.tick().await and the end of the loop body,
\* where the locals of the iteration go out of scope
Tick ==
    /\ mainpc = "tick"
    /\ cycles' = cycles + 1
    /\ measurement_signal' = None
    /\ control_signal' = Fin(0)
    /\ exchange' = "none"
    /\ mainpc' = "poll"
    /\ UNCHANGED <<ttypc, mutex, setpoint, controller, shutdown, new_setpoint,
                   o0, slaves, state, requests, buffer, parsed, typed, histVars,
                   harnessVars>>

(* ----------------------------------------------------- main: draining *)
\* the lifecycle state each step of the draining sequence asks for
BackwardTarget(pc) ==
    CASE pc = "into_safe_op" -> "SAFE-OP"
      [] pc = "into_pre_op" -> "PRE-OP"
      [] pc = "into_init" -> "INIT"

\* Backward that leaves out the step to SAFE-OP
BackwardSkipsSafeOp ==
    /\ mainpc \in {"into_safe_op", "into_pre_op", "into_init"}
    /\ LET pc == IF mainpc = "into_safe_op" THEN "into_pre_op" ELSE mainpc
       IN  /\ \/ /\ state' = BackwardTarget(pc)
                 /\ mainpc' = IF pc = "into_pre_op" THEN "into_init" ELSE "exited_ok"
              \/ /\ mainpc' = "panicked"
                 /\ UNCHANGED state
           /\ requests' = Append(requests, BackwardTarget(pc))
    /\ UNCHANGED <<ttypc, mutex, setpoint, controller, shutdown, new_setpoint,
                   measurement_signal, control_signal, o0, slaves, exchange,
                   buffer, parsed, typed, cycles, histVars, harnessVars>>

\* main.rs 191-195: into_safe_op, into_pre_op, into_init, each with expect,
\* then Ok(())
Backward ==
    /\ mainpc \in {"into_safe_op", "into_pre_op", "into_init"}
    /\ \/ /\ state' = BackwardTarget(mainpc)
          /\ mainpc' = CASE mainpc = "into_safe_op" -> "into_pre_op"
                         [] mainpc = "into_pre_op" -> "into_init"
                         [] mainpc = "into_init" -> "exited_ok"
       \/ /\ mainpc' = "panicked"
          /\ UNCHANGED state
    /\ requests' = Append(requests, BackwardTarget(mainpc))
    /\ UNCHANGED <<ttypc, mutex, setpoint, controller, shutdown, new_setpoint,
                   measurement_signal, control_signal, o0, slaves, exchange,
                   buffer, parsed, typed, cycles, histVars, harnessVars>>

(* ------------------------------------------------------ console thread *)
\* main.rs 200-201: a line arrives on stdin
ReadLineWithin(limit) ==
    /\ Alive
    /\ ttypc = "read_line"
    /\ typed < limit
    /\ \E line \in Lines : buffer' = line
    /\ UNCHANGED parsed
    /\ typed' = typed + 1
    /\ ttypc' = "parse"
    /\ UNCHANGED <<mainpc, mutex, setpoint, controller, shutdown, new_setpoint,
                   measurement_signal, control_signal, o0, slaves, state, linkVars,
                   cycles, histVars, harnessVars>>

ReadLine == ReadLineWithin(MaxLines)

\* Parse that hands on a line that is no number as if it were one
ParseAcceptsAnything ==
    /\ Alive
    /\ ttypc = "parse"
    /\ ttypc' = "lock_write"
    /\ parsed' = ParseF64(Trim(buffer)).val
    /\ UNCHANGED buffer
    /\ UNCHANGED <<mainpc, mutex, setpoint, controller, shutdown, new_setpoint,
                   measurement_signal, control_signal, o0, slaves, state, linkVars,
                   typed, cycles, histVars, harnessVars>>

\* main.rs 202-203: match buffer.trim().parse() { Ok(new_setpoint) => ..
Parse ==
    /\ Alive
    /\ ttypc = "parse"
    /\ LET r == ParseF64(Trim(buffer))
       IN  IF r.ok THEN ttypc' = "lock_write" /\ parsed' = r.val
           ELSE ttypc' = "report" /\ UNCHANGED parsed
    /\ UNCHANGED buffer
    /\ UNCHANGED <<mainpc, mutex, setpoint, controller, shutdown, new_setpoint,
                   measurement_signal, control_signal, o0, slaves, state, linkVars,
                   typed, cycles, histVars, harnessVars>>

\* main.rs 209: eprintln!("setpoint must be a real number"), and the next
\* iteration with a fresh buffer
Report ==
    /\ Alive
    /\ ttypc = "report"
    /\ ttypc' = "read_line"
    /\ buffer' = << >>
    /\ UNCHANGED parsed
    /\ UNCHANGED <<mainpc, mutex, setpoint, controller, shutdown, new_setpoint,
                   measurement_signal, control_signal, o0, slaves, state, linkVars,
                   typed, cycles, histVars, harnessVars>>

\* main.rs 204: setpoint.lock().unwrap()
TtyLock ==
    /\ Alive
    /\ ttypc = "lock_write"
    /\ mutex = "free"
    /\ mutex' = "tty"
    /\ ttypc' = "write"
    /\ UNCHANGED <<mainpc, setpoint, controller, shutdown, new_setpoint,
                   measurement_signal, control_signal, o0, slaves, state, linkVars,
                   buffer, parsed, typed, cycles, histVars, harnessVars>>

\* main.rs 204-207: *guard = SetpointUpdate { setpoint: new_setpoint, ready: true };
\* the next iteration starts with a fresh buffer (main.rs 200)
Write ==
    /\ Alive
    /\ ttypc = "write"
    /\ mutex = "tty"
    /\ mutex' = "free"
    /\ setpoint' = [ready |-> TRUE, setpoint |-> parsed]
    /\ buffer' = << >>
    /\ parsed' = Fin(0)
    /\ nWrites' = nWrites + 1
    /\ slotId' = nWrites + 1
    /\ writesSinceCheck' = IF writesSinceCheck < 2 THEN writesSinceCheck + 1 ELSE 2
    /\ ttypc' = "read_line"
    /\ UNCHANGED <<mainpc, controller, shutdown, new_setpoint,
                   measurement_signal, control_signal, o0, slaves, state, linkVars,
                   typed, cycles, takenId, appliedCnt, checkedWrites,
                   foundReady, nsCalls, csCalls, harnessVars>>

Next ==
    \/ ReadArgs \/ InitGroup \/ Configure \/ IntoOp \/ Register \/ SpawnTty
    \/ NewController \/ Sigint \/ Poll \/ TxRx \/ MainLock \/ CheckReady
    \/ ReadValue \/ Apply \/ ClearReady \/ Measure \/ Control \/ ActuateStep
    \/ Tick \/ Backward \/ ReadLine \/ Parse \/ Report \/ TtyLock \/ Write

Spec == Init /\ [][Next]_vars

(* ------------------------------------------------- the mailbox scenario *)
\* The running program as main first polls the shutdown flag, with both
\* terminals on the bus, followed without SIGINT for MaxBurst console lines.
MailboxInit ==
    /\ mainpc = "poll"
    /\ ttypc = "read_line"
    /\ mutex = "free"
    /\ setpoint = [ready |-> FALSE, setpoint |-> initial_setpoint]
    /\ controller = New(P(1), initial_setpoint)
    /\ shutdown = FALSE
    /\ new_setpoint = Fin(0)
    /\ measurement_signal = None
    /\ control_signal = Fin(0)
    /\ o0 = 0
    /\ slaves = {"EK1100", "EL3062", "EL2042"}
    /\ state = "OP"
    /\ requests = <<"PRE-OP", "OP">>
    /\ exchange = "none"
    /\ buffer = << >>
    /\ parsed = Fin(0)
    /\ typed = 0
    /\ cycles = 0
    /\ nWrites = 0
    /\ slotId = 0
    /\ takenId = 0
    /\ appliedCnt = [i \in 1..MaxBurst |-> 0]
    /\ writesSinceCheck = 0
    /\ checkedWrites = 0
    /\ foundReady = FALSE
    /\ nsCalls = 0
    /\ csCalls = 0
    /\ HarnessOff

BurstReadLine == ReadLineWithin(MaxBurst)

MailboxNext ==
    \/ Poll \/ TxRx \/ MainLock \/ CheckReady \/ ReadValue \/ Apply
    \/ ClearReady \/ Measure \/ Control \/ ActuateStep \/ Tick
    \/ BurstReadLine \/ Parse \/ Report \/ TtyLock \/ Write

MailboxSpec == MailboxInit /\ [][MailboxNext]_vars

(* ------------------------------------------------ controller harness *)
\* A client of controller.rs alone: it constructs a controller hA, calls
\* new_setpoint and control_signal on it in any order ("prior"), then calls
\* new_setpoint(t) on it, constructs hB afresh at t, and feeds both the same
\* measurements ("lockstep").

\* gains of the program and of the tests of controller.rs
GainSet == {P(1), P(10), PI(1, 1), PI(1, 10)}
\* setpoints handed to new, which does not clamp
InitSetpoints == {Fin(0), Fin(One \div 2), Fin(One + One \div 2)}
\* setpoints handed to new_setpoint: whatever the console parser can deliver
SetpointInputs ==
    {Fin(0 - One \div 2), Fin(One \div 2), Fin(One + One \div 2), NaN, PosInf}
\* measurements: finite, as raw / 65535 is, in and out of [0,1]
MeasInputs == {Fin(0), Fin(One \div 2), Fin(One), Fin(2 * One)}
\* setpoints in [0,1]
UnitSetpoints == {Fin(0), Fin(One \div 2), Fin(One)}

CtlInit ==
    /\ ProgInit(1..MaxLines)
    /\ hphase = "prior"
    /\ hgains \in GainSet
    /\ \E s0 \in InitSetpoints : hA = New(hgains, s0)
    /\ hB = NoController
    /\ hlog = << >>
    /\ houtA = Fin(0)
    /\ houtB = Fin(0)
    /\ hcalls = 0

\* hA.new_setpoint(x)
HNewSetpoint ==
    /\ hphase = "prior"
    /\ hcalls < MaxCalls
    /\ \E x \in SetpointInputs :
          /\ hA' = NewSetpoint(hA, x)
          /\ hlog' = Append(hlog, [op |-> "new_setpoint", arg |-> x,
                                   setpoint |-> hA.setpoint, out |-> Fin(0)])
    /\ hcalls' = hcalls + 1
    /\ UNCHANGED <<hphase, hgains, hB, houtA, houtB, progVars, histVars>>

\* hA.control_signal(m)
HControlSignal ==
    /\ hphase = "prior"
    /\ hcalls < MaxCalls
    /\ \E m \in MeasInputs :
          LET r == ControlSignal(hA, m)
          IN  /\ hA' = r.self
              /\ houtA' = r.out
              /\ hlog' = Append(hlog, [op |-> "control_signal", arg |-> m,
                                       setpoint |-> hA.setpoint,
                                       out |-> r.out])
    /\ hcalls' = hcalls + 1
    /\ UNCHANGED <<hphase, hgains, hB, houtB, progVars, histVars>>

\* hA.new_setpoint(t) and hB = new(gains, t); the log and the outputs start
\* afresh
HReset ==
    /\ hphase = "prior"
    /\ \E t \in UnitSetpoints :
          /\ hA' = NewSetpoint(hA, t)
          /\ hB' = New(hgains, t)
    /\ hphase' = "lockstep"
    /\ hlog' = << >>
    /\ houtA' = Fin(0)
    /\ houtB' = Fin(0)
    /\ hcalls' = 0
    /\ UNCHANGED <<hgains, progVars, histVars>>

\* hA.control_signal(m) and hB.control_signal(m)
HLockstep ==
    /\ hphase = "lockstep"
    /\ hcalls < MaxCalls
    /\ \E m \in MeasInputs :
          LET ra == ControlSignal(hA, m)
              rb == ControlSignal(hB, m)
          IN  /\ hA' = ra.self
              /\ houtA' = ra.out
              /\ hB' = rb.self
              /\ houtB' = rb.out
    /\ hcalls' = hcalls + 1
    /\ UNCHANGED <<hphase, hgains, hlog, progVars, histVars>>

CtlNext == HNewSetpoint \/ HControlSignal \/ HReset \/ HLockstep

CtlSpec == CtlInit /\ [][CtlNext]_vars

(* ------------------------------------------------------------ properties *)
\* the latest write has been applied to the controller by new_setpoint
LatestApplied == nWrites = 0 \/ appliedCnt[nWrites] > 0

\* C1: the drain behaves as one atomic read-and-clear: whenever the most
\* recently written setpoint has not been applied to the controller, and main
\* is not just applying it (it holds no copy of it), the ready flag is true, so
\* that no written value is discarded by the reader's clear.
C1_UnappliedWriteIsReady ==
    (~LatestApplied /\ takenId # nWrites) => setpoint.ready

\* C2: a setpoint written last takes effect: once the console thread has made
\* its last write and a drain that began after that write has finished, the
\* controller's setpoint is the written value clamped to [0,1].
C2_LastWriteTakesEffect ==
    (/\ ttypc = "read_line" /\ typed = MaxLines
     /\ nWrites > 0 /\ writesSinceCheck = 0
     /\ mainpc = "measure")
    => controller.setpoint = FClamp(setpoint.setpoint, Fin(0), Fin(One))

\* C3: overwrite, not queue: after two writes with no drain starting in between,
\* the next drain (one that starts after the second write), once finished with
\* no further write, has applied the second write.
C3_SecondWriteWins ==
    (mainpc = "measure" /\ checkedWrites = 2 /\ writesSinceCheck = 0)
    => appliedCnt[nWrites] > 0

\* C4: each write is consumed at most once: no write is applied twice; the
\* step that ends a drain which found the slot ready leaves the slot not ready;
\* new_setpoint is called only in a drain that found the slot ready, with the
\* value read from the slot; a drain that finds the slot not ready goes on to
\* the measurement with the controller untouched.
C4_ConsumedAtMostOnce ==
    [][ /\ \A i \in DOMAIN appliedCnt : appliedCnt'[i] <= 1
        /\ (mainpc = "clear_ready" /\ mainpc' = "measure") => ~setpoint'.ready
        /\ (nsCalls' # nsCalls)
              => /\ foundReady
                 /\ nsCalls' = nsCalls + 1
                 /\ takenId \in DOMAIN appliedCnt
                 /\ appliedCnt'[takenId] = 1
        /\ (controller'.setpoint # controller.setpoint /\ Constructed)
              => nsCalls' = nsCalls + 1
        /\ (mainpc = "check_ready" /\ mainpc' # mainpc /\ ~setpoint.ready)
              => /\ mainpc' = "measure"
                 /\ controller' = controller
                 /\ nsCalls' = nsCalls
      ]_vars

\* C4 witness: the first drain consumed write 1 and the second drain found
\* the slot not ready
C4_Witness ==
    /\ cycles = 1 /\ mainpc = "measure" /\ ~foundReady
    /\ appliedCnt[1] = 1 /\ ~setpoint.ready

\* C5: once constructed, the controller's setpoint lies in [0,1].
C5_SetpointInUnitInterval ==
    Constructed =>
        /\ IsFin(controller.setpoint)
        /\ 0 <= controller.setpoint.v
        /\ controller.setpoint.v <= One

\* C9: the byte written to the EL2042 in a cycle is extend (2) exactly when
\* that cycle's control signal exceeds the deadband, retract (1) exactly when
\* it is below minus the deadband, neutral (0) otherwise, the two boundary
\* values included; 3 is never written.
C9_ActuationPolicy ==
    /\ o0 \in {0, 1, 2}
    /\ (mainpc = "tick" /\ "EL2042" \in slaves) =>
          /\ (o0 = 2) = FGt(control_signal, Fin(deadband_half_width))
          /\ (o0 = 1) = FLt(control_signal, Fin(0 - deadband_half_width))
          /\ (control_signal \in {Fin(deadband_half_width),
                                  Fin(0 - deadband_half_width)}) => o0 = 0

\* C9 witness: a control signal exactly on the deadband boundary, written as
\* neutral over an earlier extend
C9_Witness ==
    /\ mainpc = "tick" /\ "EL2042" \in slaves /\ cycles = 1
    /\ control_signal = Fin(deadband_half_width)
    /\ o0 = 0

\* the cycle under way has no sensor sample
MissingSample == mainpc \in {"control", "actuate", "tick"} /\ ~measurement_signal.some

\* C10: in a cycle without a sensor sample (no EL3062, or a reading that does
\* not unpack) the control signal is 0, the byte written is neutral,
\* control_signal is not called and the controller is left as it was.
C10_MissingSampleCycle ==
    [][ /\ (mainpc = "measure" /\ mainpc' = "control" /\ "EL3062" \notin slaves)
              => ~measurement_signal'.some
        /\ MissingSample => (controller' = controller /\ csCalls' = csCalls)
        /\ (MissingSample /\ mainpc = "control" /\ mainpc' = "actuate")
              => control_signal' = Fin(0)
        /\ (MissingSample /\ mainpc = "actuate" /\ mainpc' = "tick")
              => /\ control_signal = Fin(0)
                 /\ "EL2042" \in slaves => o0' = 0
      ]_vars

\* C10 witness: a reading failed to unpack in the second cycle, with a
\* nonzero accumulator and a setpoint off the measurement, and neutral was
\* written over the first cycle's command
C10_Witness ==
    /\ mainpc = "tick" /\ cycles = 1 /\ ~measurement_signal.some
    /\ {"EL3062", "EL2042"} \subseteq slaves
    /\ controller.error_accumulator # Fin(0)
    /\ csCalls = 1
    /\ o0 = 0

\* the sum of setpoint - measurement over the control_signal calls of a log
\* that follow its last new_setpoint call
RECURSIVE ErrorsSinceReset(_)
ErrorsSinceReset(log) ==
    IF log = << >> THEN Fin(0)
    ELSE LET e == log[Len(log)]
         IN  IF e.op = "new_setpoint" THEN Fin(0)
             ELSE FAdd(ErrorsSinceReset(SubSeq(log, 1, Len(log) - 1)),
                       FSub(e.setpoint, e.arg))

\* C6: the accumulator is the sum of the errors of exactly the control_signal
\* calls made since the last new_setpoint (or since construction), for P and
\* PI gains alike.
C6_AccumulatorIsErrorSum ==
    hphase = "prior" => hA.error_accumulator = ErrorsSinceReset(hlog)

\* C6 witness: a proportional-only controller, a call with a nonzero error, a
\* new_setpoint, then a call with a nonzero error
C6_Witness ==
    /\ hphase = "prior" /\ hgains.kind = "P" /\ Len(hlog) = 3
    /\ hlog[1].op = "control_signal" /\ hlog[1].setpoint # hlog[1].arg
    /\ hlog[2].op = "new_setpoint"
    /\ hlog[3].op = "control_signal"
    /\ IsFin(hA.error_accumulator) /\ hA.error_accumulator.v # 0

\* C7: after new_setpoint(t), t in [0,1], a used controller returns what a
\* controller freshly constructed at t with the same gains returns, for the
\* same measurements.
C7_ResetEquivalence ==
    hphase = "lockstep" => (houtA = houtB /\ hA = hB)

\* C7 witness: PI gains, two measurements fed to both, a nonzero output
C7_Witness ==
    /\ hphase = "lockstep" /\ hgains.kind = "PI" /\ hcalls = 2
    /\ houtA = houtB /\ houtA # Fin(0)

\* the last call made on hA in the prior phase, if it was control_signal
LastCall == hlog[Len(hlog)]
AfterControlSignal ==
    hphase = "prior" /\ hlog # << >> /\ LastCall.op = "control_signal"

\* C8: a proportional-only controller with k_p > 0 returns a positive signal
\* for a measurement below the setpoint, a negative one for a measurement above
\* it and exactly 0 for a measurement equal to it, whatever was called before.
C8_DirectionCorrect ==
    (AfterControlSignal /\ hgains.kind = "P" /\ FGt(hgains.k_p, Fin(0))) =>
        /\ FLt(LastCall.arg, LastCall.setpoint) => FGt(houtA, Fin(0))
        /\ FGt(LastCall.arg, LastCall.setpoint) => FLt(houtA, Fin(0))
        /\ (LastCall.arg = LastCall.setpoint) => houtA = Fin(0)

\* C8 witness: the third call on a proportional-only controller, with a
\* nonzero accumulator behind it, has the measurement on the setpoint
C8_Witness ==
    /\ AfterControlSignal /\ hgains.kind = "P" /\ Len(hlog) = 3
    /\ hlog[2].op = "control_signal" /\ hlog[2].arg # hlog[2].setpoint
    /\ LastCall.arg = LastCall.setpoint
    /\ houtA = Fin(0)
    /\ hA.error_accumulator # Fin(0)

(* ------------------------------------------------ shutdown and lifecycle *)
\* the positions of the loop body, after the poll
LoopBody ==
    {"tx_rx", "lock_ready", "check_ready", "lock_value", "read_value", "apply",
     "lock_clear", "clear_ready", "measure", "control", "actuate", "tick"}
\* the loop has been left through the poll
Draining ==
    \/ mainpc \in {"into_safe_op", "into_pre_op", "into_init", "exited_ok"}
    \/ mainpc = "panicked" /\ Len(requests) >= 3

\* C11: the shutdown flag is never reset; the loop is left for the draining
\* sequence only by a poll that finds the flag set, never from the middle of a
\* cycle; a poll that finds the flag set leaves the loop at once; and after
\* that there is no exchange, no drain of the setpoint, no controller call and
\* no actuator write.
C11_ShutdownAtTopOfCycle ==
    [][ /\ shutdown => shutdown'
        /\ (mainpc' = "into_safe_op" /\ mainpc # "into_safe_op")
              => (mainpc = "poll" /\ shutdown)
        /\ (mainpc \in LoopBody /\ mainpc' # mainpc)
              => mainpc' \in LoopBody \cup {"poll", "panicked"}
        /\ (mainpc = "poll" /\ shutdown /\ mainpc' # mainpc)
              => mainpc' = "into_safe_op"
        /\ Draining =>
              /\ mainpc' \notin LoopBody \cup {"poll"}
              /\ UNCHANGED <<controller, o0, exchange, cycles, nsCalls,
                             csCalls, takenId, appliedCnt, new_setpoint>>
              /\ mutex' # "main"
              /\ setpoint.ready => setpoint'.ready
      ]_vars

\* C11 witness: a cycle ran to its end with an actuator command written, and
\* the next poll, finding the flag set, left the loop
C11_Witness ==
    /\ shutdown /\ mainpc = "into_safe_op"
    /\ cycles = 1 /\ o0 # 0 /\ exchange = "none"

\* the lifecycle states the core asks for over a whole run
Lifecycle == <<"PRE-OP", "OP", "SAFE-OP", "PRE-OP", "INIT">>

\* C12: the requests made so far are a prefix of PRE-OP, OP, SAFE-OP, PRE-OP,
\* INIT; the forward part is complete before the first cycle, nothing is
\* requested while the loop runs, the backward part starts only after the
\* loop has been left, and a normal exit has made every request exactly once.
C12_LifecycleOrdering ==
    /\ Len(requests) <= Len(Lifecycle)
    /\ requests = SubSeq(Lifecycle, 1, Len(requests))
    /\ (mainpc \in LoopBody \cup {"poll"}) => requests = SubSeq(Lifecycle, 1, 2)
    /\ (cycles > 0 \/ exchange # "none") => Len(requests) >= 2
    /\ Len(requests) >= 3 => Draining
    /\ mainpc = "exited_ok" => requests = Lifecycle

\* C12 witness: a run with a cycle behind it has exited normally
C12_Witness ==
    mainpc = "exited_ok" /\ requests = Lifecycle /\ cycles >= 1 /\ state = "INIT"

\* C13: a failure of a transition of the backward sequence does not keep the
\* program from attempting the next one or from exiting normally: the
\* program does not abort in the draining sequence.
C13_BestEffortDraining ==
    Draining => mainpc # "panicked"

\* C14: when the exchange of a cycle fails the process aborts in that cycle,
\* and from then on the setpoint is not drained, the controller is neither
\* called nor changed, no actuator command is written and no cycle is started.
C14_ExchangeFailureIsFatal ==
    [][ /\ exchange' = "err" => mainpc' = "panicked"
        /\ exchange = "err" =>
              /\ mainpc' = "panicked"
              /\ mutex' # "main"
              /\ UNCHANGED <<controller, o0, exchange, cycles, nsCalls,
                             csCalls, takenId, appliedCnt, new_setpoint,
                             requests, state>>
              /\ setpoint.ready => setpoint'.ready
      ]_vars

\* C14 witness: the exchange of the second cycle failed while a written
\* setpoint waited in the channel, and the process has aborted
C14_Witness ==
    /\ exchange = "err" /\ mainpc = "panicked" /\ cycles = 1
    /\ setpoint.ready /\ nsCalls = 0

\* C16: as long as the link has not been asked for and reached OP there is no
\* cycle: no exchange, no controller call, no actuator write, and a run that
\* ends there ends without any of them.
C16_StartupFailureNeverRuns ==
    (mainpc \in {"args", "init_group", "configure", "into_op", "exited_err"}
        \/ (mainpc = "panicked" /\ state # "OP" /\ Len(requests) <= 2))
    => /\ cycles = 0 /\ exchange = "none"
       /\ csCalls = 0 /\ nsCalls = 0
       /\ o0 = 0 /\ controller = NoController
       /\ ttypc = "unspawned"

\* C16 witness: the link did not reach OP and the process has aborted
C16_Witness ==
    mainpc = "panicked" /\ state = "PRE-OP" /\ requests = <<"PRE-OP", "OP">>

(* ------------------------------------------------------ console input *)
\* the line in the buffer is no number
Malformed == ~ParseF64(Trim(buffer)).ok
\* the values the console can deliver: those of the lines that parse
Deliverable == {ParseF64(Trim(l)).val : l \in {k \in Lines : ParseF64(Trim(k)).ok}}

Successors(pc) ==
    CASE pc = "poll" -> {"tx_rx", "into_safe_op"}
      [] pc = "tx_rx" -> {"lock_ready", "panicked"}
      [] pc = "lock_ready" -> {"check_ready"}
      [] pc = "check_ready" -> {"lock_value", "measure"}
      [] pc = "lock_value" -> {"read_value"}
      [] pc = "read_value" -> {"apply"}
      [] pc = "apply" -> {"lock_clear"}
      [] pc = "lock_clear" -> {"clear_ready"}
      [] pc = "clear_ready" -> {"measure"}
      [] pc = "measure" -> {"control"}
      [] pc = "control" -> {"actuate"}
      [] pc = "actuate" -> {"tick"}
      [] pc = "tick" -> {"poll"}

\* C19: in every cycle the exchange comes first, then the drain, then the
\* measurement and the controller call, then the actuator write, then the
\* tick; so new_setpoint is called only between this cycle's exchange and
\* this cycle's control_signal call, which works on the controller as
\* new_setpoint left it (setpoint replaced, accumulator zero), and the
\* actuator command is written only after this cycle's exchange, with the
\* tick, the poll and the next exchange still to come.
C19_OrderOfACycle ==
    [][ /\ (mainpc \in LoopBody \cup {"poll"} /\ mainpc' # mainpc)
              => mainpc' \in Successors(mainpc)
        /\ (mainpc \in LoopBody \ {"tx_rx"}) => exchange = "ok"
        /\ (exchange' # exchange) => mainpc \in {"tx_rx", "tick"}
        /\ (nsCalls' # nsCalls) =>
              /\ mainpc = "apply"
              /\ controller'.setpoint = FClamp(new_setpoint, Fin(0), Fin(One))
              /\ controller'.error_accumulator = Fin(0)
        /\ (mainpc \in {"lock_clear", "clear_ready"}) =>
              /\ controller.setpoint = FClamp(new_setpoint, Fin(0), Fin(One))
              /\ controller.error_accumulator = Fin(0)
        /\ (mainpc \in {"lock_clear", "clear_ready", "measure"})
              => controller' = controller
        /\ (csCalls' # csCalls) =>
              /\ mainpc = "control" /\ measurement_signal.some
              /\ controller' = ControlSignal(controller, measurement_signal.val).self
              /\ control_signal' = ControlSignal(controller, measurement_signal.val).out
        /\ (o0' # o0) =>
              /\ mainpc = "actuate" /\ mainpc' = "tick"
              /\ o0' = Actuate(control_signal)
              /\ exchange' = "ok"
      ]_vars

\* C19 witness: a setpoint other than the initial one was drained in the first
\* cycle, that cycle's control_signal call worked with it, and the command
\* is written and waits for the tick
C19_Witness ==
    /\ mainpc = "tick" /\ cycles = 0 /\ exchange = "ok"
    /\ nsCalls = 1 /\ csCalls = 1
    /\ controller.setpoint = Fin(19 * (One \div 100))
    /\ controller.error_accumulator = Fin(19 * (One \div 100))
    /\ o0 = 2

(* ------------------------------------------------------ lock discipline *)
\* the step by which the loop gives the lock back
MainRelease == (CheckReady \/ ReadValue \/ ClearReady) /\ mutex' = "free"
\* the step by which the console thread gives the lock back
TtyRelease == Write /\ mutex' = "free"

\* C20: the loop holds the lock exactly in the three single statements of the
\* drain and the console thread exactly in its write; so the loop never asks
\* for the lock while it holds it, never holds it at the exchange, the tick
\* or the poll, and the console thread never holds it while it reads or
\* parses; and whoever holds the lock, in a live process, can give it back
\* with its very next step, so a wait for the lock is never a deadlock.
C20_LockDiscipline ==
    /\ mutex \in {"free", "main", "tty"}
    /\ mutex = "main" <=> mainpc \in {"check_ready", "read_value", "clear_ready"}
    /\ mutex = "tty" <=> ttypc = "write"
    /\ (mainpc \in {"lock_ready", "lock_value", "lock_clear"}) => mutex # "main"
    /\ (mainpc \in {"poll", "tx_rx", "tick"}) => mutex # "main"
    /\ (ttypc \in {"read_line", "parse", "report", "lock_write"}) => mutex # "tty"
    /\ (mutex = "main") => ENABLED MainRelease
    /\ (mutex = "tty" /\ Alive) => ENABLED TtyRelease
    /\ (mainpc \in {"lock_ready", "lock_value", "lock_clear"} /\ mutex = "free")
          => ENABLED MainLock
    /\ (ttypc = "lock_write" /\ mutex = "free" /\ Alive) => ENABLED TtyLock

\* C20 witness: the loop waits for the lock in the middle of the drain while
\* the console thread holds it for a write
C20_Witness ==
    mainpc = "lock_value" /\ mutex = "tty" /\ ttypc = "write" /\ Alive

(* ------------------------------------------- integral and proportional *)
\* |x| of a finite number
Abs(x) == IF x.v < 0 THEN FNeg(x) ELSE x
\* the error of the i-th call of the log
ErrorAt(i) == FSub(hlog[i].setpoint, hlog[i].arg)
\* the last new_setpoint before the i-th call, 0 for the construction
RunStart(i) ==
    LET resets == {j \in 1..i : hlog[j].op = "new_setpoint"}
    IN  IF resets = {} THEN 0 ELSE CHOOSE j \in resets : \A k \in resets : k <= j
\* since the accumulator was last zero, up to the i-th call, only
\* control_signal calls with one finite nonzero error were made
ConstantRun(i) ==
    /\ hlog[i].op = "control_signal"
    /\ IsFin(ErrorAt(i)) /\ ErrorAt(i) # Fin(0)
    /\ \A j \in (RunStart(i) + 1)..i : ErrorAt(j) = ErrorAt(i)

\* C17: with PI gains, k_p > 0 and k_i > 0, over the control_signal calls made
\* with one constant nonzero error since new_setpoint (or since construction,
\* which leaves the accumulator zero as well), the absolute value returned is
\* greater than 0 on the first call and strictly greater on each call than on
\* the call before.
C17_IntegralGrowth ==
    (hphase = "prior" /\ hgains.kind = "PI"
        /\ FGt(hgains.k_p, Fin(0)) /\ FGt(hgains.k_i, Fin(0)))
    => \A i \in DOMAIN hlog :
          ConstantRun(i) =>
             /\ IsFin(hlog[i].out)
             /\ IF i = RunStart(i) + 1
                THEN FGt(Abs(hlog[i].out), Fin(0))
                ELSE FGt(Abs(hlog[i].out), Abs(hlog[i - 1].out))

\* C17 witness: new_setpoint, then two calls with the measurement above the
\* setpoint: both outputs negative, the second further from 0
C17_Witness ==
    /\ hphase = "prior" /\ hgains.kind = "PI" /\ Len(hlog) = 3
    /\ hlog[1].op = "new_setpoint"
    /\ ConstantRun(3) /\ RunStart(3) = 1
    /\ FLt(hlog[2].out, Fin(0))
    /\ FLt(hlog[3].out, hlog[2].out)

\* the factors by which errors are compared
Factors == (0 - 4)..4

\* C18: with P gains every control_signal(m) returns k_p * (setpoint - m),
\* whatever was called before, so that of two calls the one with an error k
\* times the other's returns k times the other's output.
C18_ProportionalOnly ==
    (hphase = "prior" /\ hgains.kind = "P") =>
        /\ \A i \in DOMAIN hlog :
              hlog[i].op = "control_signal"
                 => hlog[i].out = FMul(hgains.k_p, ErrorAt(i))
        /\ \A i, j \in DOMAIN hlog : \A k \in Factors :
              (/\ hlog[i].op = "control_signal" /\ hlog[j].op = "control_signal"
               /\ IsFin(ErrorAt(i)) /\ IsFin(ErrorAt(j))
               /\ ErrorAt(j) = FMul(Fin(k), ErrorAt(i)))
              => hlog[j].out = FMul(Fin(k), hlog[i].out)

\* C18 witness: the third call on a proportional-only controller with gain 10
\* has twice the error of the second, in front of a nonzero accumulator, and
\* returns twice its output
C18_Witness ==
    /\ hphase = "prior" /\ hgains = P(10) /\ Len(hlog) = 3
    /\ \A i \in 1..3 : hlog[i].op = "control_signal" /\ IsFin(ErrorAt(i))
    /\ ErrorAt(2) # Fin(0) /\ ErrorAt(1) # Fin(0)
    /\ ErrorAt(3) = FMul(Fin(2), ErrorAt(2))
    /\ hlog[3].out = FMul(Fin(2), hlog[2].out)
    /\ hlog[3].out # Fin(0)
    /\ hA.error_accumulator # ErrorAt(3)

====
